---------------------------- MODULE Spec2Model ----------------------------
(***************************************************************************)
(* A model of src/app.py, the QNote crawler: crawl_books and the endpoints *)
(* that call it.                                                           *)
(*                                                                         *)
(* Text is a sequence of one-character strings.  An HTML string is a       *)
(* sequence of tokens (open tag, close tag, void tag, text); parsing is    *)
(* the matching of open and close tokens, so str(node) is the sub-sequence *)
(* an element spans and ''.join is concatenation.  Every await of          *)
(* fetch_text is a state: the action that resolves a fetch runs the code   *)
(* up to the next await (or to the return of the endpoint).                *)
(***************************************************************************)
EXTENDS Integers, Sequences, FiniteSets, TLC

(***************************************************************************)
(* Bounds of the model.                                                    *)
(***************************************************************************)
\* the homepage carries at most MaxLinks anchors
MaxLinks == 4
\* num_books ranges over -1 .. MaxBooks
MaxBooks == 2
\* num_chapters ranges over -1 .. MaxChapters
MaxChapters == 2

(***************************************************************************)
(* Text.                                                                   *)
(***************************************************************************)
Whitespace == {" ", "\n", "\t"}

Digits == {"0", "1", "2", "3", "4", "5", "6", "7", "8", "9"}

\* str.strip(): drop leading and trailing whitespace
RECURSIVE lstrip(_)
lstrip(s) ==
    IF s = <<>> THEN <<>>
    ELSE IF Head(s) \in Whitespace THEN lstrip(Tail(s)) ELSE s

RECURSIVE rstrip(_)
rstrip(s) ==
    IF s = <<>> THEN <<>>
    ELSE IF s[Len(s)] \in Whitespace THEN rstrip(SubSeq(s, 1, Len(s) - 1)) ELSE s

strip(s) == rstrip(lstrip(s))


DigitOf(d) == CASE d = 0 -> "0" [] d = 1 -> "1" [] d = 2 -> "2" [] d = 3 -> "3"
                [] d = 4 -> "4" [] d = 5 -> "5" [] d = 6 -> "6" [] d = 7 -> "7"
                [] d = 8 -> "8" [] d = 9 -> "9"

\* the decimal rendering of a natural number inside an f-string
RECURSIVE DecStr(_)
DecStr(n) == IF n < 10 THEN <<DigitOf(n)>> ELSE DecStr(n \div 10) \o <<DigitOf(n % 10)>>

\* the ascending sequence of the elements of a finite set of integers
SortedSeq(S) ==
    [j \in 1..Cardinality(S) |-> CHOOSE x \in S : Cardinality({y \in S : y <= x}) = j]

\* str.split('\n'): the pieces between line breaks, empty pieces included
SplitLines(s) ==
    LET breaks == SortedSeq({k \in 1..Len(s) : s[k] = "\n"})
        n == Len(breaks)
    IN  [j \in 1..(n + 1) |->
            SubSeq(s, IF j = 1 THEN 1 ELSE breaks[j - 1] + 1,
                      IF j = n + 1 THEN Len(s) ELSE breaks[j] - 1)]

\* ''.join(parts)
RECURSIVE Concat(_)
Concat(parts) == IF parts = <<>> THEN <<>> ELSE Head(parts) \o Concat(Tail(parts))

(***************************************************************************)
(* HTML strings and the parsed document.                                   *)
(***************************************************************************)
NoHref == [host |-> "", segs |-> <<>>, bad |-> FALSE, present |-> FALSE]

Tok(k, tag, cls, id, href, s) ==
    [k |-> k, tag |-> tag, cls |-> cls, id |-> id, href |-> href, s |-> s]

Open(tag, cls, id) == Tok("open", tag, cls, id, NoHref, <<>>)
OpenA(href) == Tok("open", "a", {}, "", href, <<>>)
Close(tag) == Tok("close", tag, {}, "", NoHref, <<>>)
Img(cls) == Tok("void", "img", cls, "", NoHref, <<>>)
Text(s) == Tok("text", "", {}, "", NoHref, s)

\* <tag class=cls>inner</tag>
El(tag, cls, inner) == <<Open(tag, cls, "")>> \o inner \o <<Close(tag)>>

\* the index of the close token matching the open token at i
RECURSIVE MatchFrom(_, _, _)
MatchFrom(doc, j, depth) ==
    IF j > Len(doc) THEN Len(doc)
    ELSE IF doc[j].k = "open" THEN MatchFrom(doc, j + 1, depth + 1)
    ELSE IF doc[j].k = "close"
         THEN IF depth = 0 THEN j ELSE MatchFrom(doc, j + 1, depth - 1)
    ELSE MatchFrom(doc, j + 1, depth)

\* the last token of the element that starts at i
End(doc, i) == IF doc[i].k = "open" THEN MatchFrom(doc, i + 1, 0) ELSE i

\* the element nodes of the document, by the index of their first token
Elements(doc) == {i \in 1..Len(doc) : doc[i].k \in {"open", "void"}}

IsAncestor(doc, a, i) == doc[a].k = "open" /\ a < i /\ i <= End(doc, a)

Ancestors(doc, i) == {a \in Elements(doc) : IsAncestor(doc, a, i)}

\* the parent element of node i, 0 for a top-level node
Parent(doc, i) ==
    IF Ancestors(doc, i) = {} THEN 0
    ELSE CHOOSE a \in Ancestors(doc, i) : \A b \in Ancestors(doc, i) : b <= a

\* str(node)
NodeStr(doc, i) == SubSeq(doc, i, End(doc, i))

\* node.get_text(): the text nodes under the node, concatenated
RECURSIVE TextOf(_)
TextOf(toks) ==
    IF toks = <<>> THEN <<>>
    ELSE (IF Head(toks).k = "text" THEN Head(toks).s ELSE <<>>) \o TextOf(Tail(toks))

get_text(doc, i) == TextOf(NodeStr(doc, i))

\* soup.get_text(separator='\n'): the text nodes joined by line breaks
RECURSIVE TextOfSep(_, _)
TextOfSep(toks, first) ==
    IF toks = <<>> THEN <<>>
    ELSE IF Head(toks).k = "text"
         THEN (IF first THEN <<>> ELSE <<"\n">>) \o Head(toks).s \o TextOfSep(Tail(toks), FALSE)
    ELSE TextOfSep(Tail(toks), first)

\* soup.find_all(tag): in document order
find_all(doc, tags) == SortedSeq({i \in Elements(doc) : doc[i].tag \in tags})

\* soup.select('.c1, .c2') and soup.select('#id'): in document order
select_class(doc, classes) ==
    SortedSeq({i \in Elements(doc) : doc[i].cls \cap classes # {}})

select_id(doc, id) == SortedSeq({i \in Elements(doc) : doc[i].id = id})

\* soup.select('body p') or soup.find_all('p')
select_paragraphs(doc) ==
    LET inBody == {i \in Elements(doc) :
                     /\ doc[i].tag = "p"
                     /\ \E a \in Ancestors(doc, i) : doc[a].tag = "body"}
    IN  IF inBody # {} THEN SortedSeq(inBody) ELSE find_all(doc, {"p"})

\* soup.select_one('.breadcrumb a:nth-of-type(2)'): 0 when nothing matches
select_breadcrumb(doc) ==
    LET anchors == {i \in Elements(doc) : doc[i].tag = "a"}
        parent == [i \in anchors |-> Parent(doc, i)]
        hits == {i \in anchors :
                   /\ \E a \in Ancestors(doc, i) : "breadcrumb" \in doc[a].cls
                   /\ Cardinality({j \in anchors :
                                     j <= i /\ parent[j] = parent[i]}) = 2}
    IN  IF hits = {} THEN 0 ELSE CHOOSE i \in hits : \A j \in hits : i <= j

\* str(soup): adjacent text nodes run together and an empty one leaves no trace
Serialize(toks) ==
    LET live == SelectSeq(toks, LAMBDA t : t.k # "text" \/ t.s # <<>>)
        \* the tokens that are not text, and the first token of every run of text
        heads == SortedSeq({k \in 1..Len(live) :
                              live[k].k # "text" \/ k = 1 \/ live[k - 1].k # "text"})
        RunEnd(h) == CHOOSE e \in h..Len(live) :
                         /\ \A k \in h..e : live[k].k = "text"
                         /\ e = Len(live) \/ live[e + 1].k # "text"
    IN  [j \in 1..Len(heads) |->
            IF live[heads[j]].k # "text" THEN live[heads[j]]
            ELSE Text(TextOf(SubSeq(live, heads[j], RunEnd(heads[j]))))]

\* the letters a tag is named by in a text that is read as HTML
TagLetters == {"a", "b", "p"}

\* the tokens of a text read as an HTML string: '<' letter '>' opens an
\* element, '</' letter '>' closes one, and any other character is data
RECURSIVE ParseText(_)
ParseText(s) ==
    IF s = <<>> THEN <<>>
    ELSE IF Len(s) >= 3 /\ s[1] = "<" /\ s[2] \in TagLetters /\ s[3] = ">"
         THEN <<Open(s[2], {}, "")>> \o ParseText(SubSeq(s, 4, Len(s)))
    ELSE IF Len(s) >= 4 /\ s[1] = "<" /\ s[2] = "/" /\ s[3] \in TagLetters /\ s[4] = ">"
         THEN <<Close(s[3])>> \o ParseText(SubSeq(s, 5, Len(s)))
    ELSE <<Text(<<s[1]>>)>> \o ParseText(Tail(s))

\* BeautifulSoup(text, 'html.parser') of a str that is a text
AsHtml(text) == Serialize(ParseText(text))

\* clean_html: images removed, every anchor replaced by its text
\* token by token: what is inside an anchor goes with the anchor, and what
\* goes leaves an empty text
Cleaned(doc) ==
    LET anchors == {a \in 1..Len(doc) : doc[a].tag = "a" /\ doc[a].k = "open"}
        ends == [a \in anchors |-> End(doc, a)]
    IN  [k \in 1..Len(doc) |->
            IF \E a \in anchors : a < k /\ k <= ends[a] THEN Text(<<>>)
            ELSE IF doc[k].tag = "img" /\ doc[k].k = "void" THEN Text(<<>>)
            ELSE IF k \in anchors THEN Text(get_text(doc, k))
            ELSE doc[k]]

clean_html(html) == Serialize(Cleaned(html))


(***************************************************************************)
(* Optional[str], fetch_text and the URLs of the site.                     *)
(***************************************************************************)
None == [isNone |-> TRUE, html |-> <<>>]

Some(html) == [isNone |-> FALSE, html |-> html]

\* Python's `not body` for an Optional[str]: None and '' are both falsy
FalsyNoneOnly(body) == body.isNone

Falsy(body) == body.isNone \/ body.html = <<>>

HTTP_OK == 200

\* what client.get does: an HTTP response, a timeout or another exception
Response(status, text) == [kind |-> "response", status |-> status, text |-> text]

Timeout == [kind |-> "timeout", status |-> 0, text |-> <<>>]

TransportError == [kind |-> "error", status |-> 0, text |-> <<>>]

\* fetch_text without the test of line 72
fetch_text_any_status(r) ==
    IF r.kind = "response" THEN Some(r.text) ELSE None

fetch_text(r) ==
    IF r.kind = "response" /\ r.status = HTTP_OK THEN Some(r.text) ELSE None

Host == "qnote.qq.com"

SegDetail == <<"d", "e", "t", "a", "i", "l">>

SegRead == <<"r", "e", "a", "d">>

Url(host, segs) == [host |-> host, segs |-> segs]

homepage == Url(Host, <<>>)

detail_url(book_id) == Url(Host, <<SegDetail, book_id>>)

chapter_url(book_id, i) == Url(Host, <<SegRead, book_id, DecStr(i)>>)

(***************************************************************************)
(* Link discovery (the homepage).  An href is the host it names ("" for a  *)
(* root-relative path), its path segments, and whether httpx.URL.join      *)
(* rejects it.                                                             *)
(***************************************************************************)
Href(host, segs, bad) == [host |-> host, segs |-> segs, bad |-> bad, present |-> TRUE]

\* '/detail/' in href
HasDetailMarker(href) == \E k \in 1..(Len(href.segs) - 1) : href.segs[k] = SegDetail

\* lines 123-129: an absolute href is kept, a relative one is joined to the
\* homepage, and kept raw when the join raises
ResolveLink(href) ==
    IF href.host # "" THEN href
    ELSE IF href.bad THEN href
    ELSE Href(Host, href.segs, FALSE)

\* lines 119-129
CollectLinks(doc) ==
    {ResolveLink(doc[i].href) :
        i \in {j \in Elements(doc) :
                 /\ doc[j].tag = "a"
                 /\ doc[j].href.present
                 /\ HasDetailMarker(doc[j].href)}}

RECURSIVE LeadingDigits(_)
LeadingDigits(s) ==
    IF s = <<>> \/ Head(s) \notin Digits THEN <<>>
    ELSE <<Head(s)>> \o LeadingDigits(Tail(s))

\* re.search(r'/detail/(\d+)', href): the places where the pattern matches
DetailMatches(href) ==
    {k \in 1..(Len(href.segs) - 1) :
        href.segs[k] = SegDetail /\ LeadingDigits(href.segs[k + 1]) # <<>>}

\* m.group(1) of the leftmost match
DetailId(href) ==
    LET k == CHOOSE m \in DetailMatches(href) : \A n \in DetailMatches(href) : m <= n
    IN  LeadingDigits(href.segs[k + 1])

\* an enumeration of a set, as `for href in links` produces one
RECURSIVE SetToSeq(_)
SetToSeq(S) ==
    IF S = {} THEN <<>>
    ELSE LET x == CHOOSE y \in S : TRUE IN <<x>> \o SetToSeq(S \ {x})

\* lines 132-136
RECURSIVE ExtractIds(_)
ExtractIds(hrefs) ==
    IF hrefs = <<>> THEN <<>>
    ELSE (IF DetailMatches(Head(hrefs)) # {} THEN <<DetailId(Head(hrefs))>> ELSE <<>>)
         \o ExtractIds(Tail(hrefs))

SeqRange(s) == {s[k] : k \in 1..Len(s)}

\* list(dict.fromkeys(book_ids)): the first occurrence of every id, in order
KeepDuplicates(ids) == ids

RECURSIVE Dedup(_)
Dedup(ids) ==
    IF ids = <<>> THEN <<>>
    ELSE LET front == Dedup(SubSeq(ids, 1, Len(ids) - 1))
             last == ids[Len(ids)]
         IN  IF last \in SeqRange(front) THEN front ELSE Append(front, last)

\* random.shuffle: every arrangement of the list is a possible outcome
Shuffles(ids) ==
    {[k \in 1..Len(ids) |-> ids[f[k]]] :
        f \in {g \in [1..Len(ids) -> 1..Len(ids)] :
                 \A a, b \in 1..Len(ids) : a # b => g[a] # g[b]}}

\* book_ids[: n], with Python's reading of a negative n
TruncateOneMore(ids, n) ==
    IF n >= 0 THEN SubSeq(ids, 1, IF n + 1 < Len(ids) THEN n + 1 ELSE Len(ids))
    ELSE SubSeq(ids, 1, Len(ids) + n)

Truncate(ids, n) ==
    IF n >= 0 THEN SubSeq(ids, 1, IF n < Len(ids) THEN n ELSE Len(ids))
    ELSE SubSeq(ids, 1, Len(ids) + n)

\* lines 118-138: the ids of the homepage before the shuffle
DiscoverIds(body) == Dedup(ExtractIds(SetToSeq(CollectLinks(body))))

(***************************************************************************)
(* Field extraction (lines 155-167 and 175-206).  A character outside      *)
(* ASCII is written as the name of its code point.                         *)
(***************************************************************************)
StrBook == <<"B", "o", "o", "k", " ">>

StrChuong == <<"C", "h", "U+01B0", "U+01A1", "n", "g", " ">>

StrUnknown == <<"U", "n", "k", "n", "o", "w", "n">>

StrUntitled == <<"u", "n", "t", "i", "t", "l", "e", "d">>

\* '<p>Chưa có mô tả</p>'
NoDescription ==
    El("p", {}, <<Text(<<"C", "h", "U+01B0", "a", " ", "c", "U+00F3", " ",
                         "m", "U+00F4", " ", "t", "U+1EA3">>)>>)

\* '<p>Chưa có nội dung</p>'
NoContent ==
    El("p", {}, <<Text(<<"C", "h", "U+01B0", "a", " ", "c", "U+00F3", " ",
                         "n", "U+1ED9", "i", " ", "d", "u", "n", "g">>)>>)

\* ''.join(str(n) for n in nodes)
RECURSIVE JoinNodes(_, _)
JoinNodes(doc, nodes) ==
    IF nodes = <<>> THEN <<>>
    ELSE NodeStr(doc, Head(nodes)) \o JoinNodes(doc, Tail(nodes))

\* lines 156-157: dsoup.find(['h1', 'h2']) is the first of either in the document
book_title(doc, book_id) ==
    LET tags == find_all(doc, {"h1", "h2"})
    IN  IF tags # <<>> THEN strip(get_text(doc, tags[1])) ELSE StrBook \o book_id

\* lines 159-164
book_description(doc) ==
    LET desc_nodes == select_class(doc, {"intro", "detail_intro"})
    IN  IF desc_nodes # <<>> THEN clean_html(JoinNodes(doc, desc_nodes))
        ELSE NoDescription

\* lines 166-167
book_category(doc) ==
    LET breadcrumb == select_breadcrumb(doc)
    IN  IF breadcrumb # 0 THEN strip(get_text(doc, breadcrumb)) ELSE StrUnknown

\* lines 176-177
chapter_title(doc, i) ==
    LET tags == find_all(doc, {"h1"})
    IN  IF tags # <<>> THEN strip(get_text(doc, tags[1])) ELSE StrChuong \o DecStr(i)

\* line 180
selectors ==
    << [by |-> "class", name |-> "content"],
       [by |-> "class", name |-> "chapter"],
       [by |-> "class", name |-> "read-content"],
       [by |-> "id", name |-> "content"],
       [by |-> "class", name |-> "article"] >>

select(doc, sel) ==
    IF sel.by = "class" THEN select_class(doc, {sel.name}) ELSE select_id(doc, sel.name)

\* lines 181-187 without the break of line 187: the last selector that
\* matches anything
RECURSIVE SelectorHtmlNoBreak(_, _)
SelectorHtmlNoBreak(doc, sels) ==
    IF sels = <<>> THEN None
    ELSE IF ~SelectorHtmlNoBreak(doc, Tail(sels)).isNone
         THEN SelectorHtmlNoBreak(doc, Tail(sels))
    ELSE IF select(doc, Head(sels)) # <<>>
         THEN Some(JoinNodes(doc, select(doc, Head(sels))))
    ELSE None

\* lines 181-187: the first selector that matches anything
RECURSIVE SelectorHtml(_, _)
SelectorHtml(doc, sels) ==
    IF sels = <<>> THEN None
    ELSE IF select(doc, Head(sels)) # <<>>
         THEN Some(JoinNodes(doc, select(doc, Head(sels))))
    ELSE SelectorHtml(doc, Tail(sels))

\* line 200: texts[:50]
TextLineCap == 50

\* line 198: the non-empty stripped lines of the whole-page text
RECURSIVE NonEmptyStripped(_)
NonEmptyStripped(lines) ==
    IF lines = <<>> THEN <<>>
    ELSE (IF strip(Head(lines)) # <<>> THEN <<strip(Head(lines))>> ELSE <<>>)
         \o NonEmptyStripped(Tail(lines))

PageLines(doc) == NonEmptyStripped(SplitLines(TextOfSep(doc, TRUE)))

\* '<p>' + '</p><p>'.join(texts) + '</p>': the lines go into the HTML string
\* as they are, so what reads as a tag in a line is one
RECURSIVE WrapParagraphs(_)
WrapParagraphs(texts) ==
    IF texts = <<>> THEN <<>>
    ELSE El("p", {}, AsHtml(Head(texts))) \o WrapParagraphs(Tail(texts))

\* lines 179-206
chapter_content(doc) ==
    LET bySelector == SelectorHtml(doc, selectors)
        p_nodes == select_paragraphs(doc)
        byParagraph ==
            IF Falsy(bySelector) /\ p_nodes # <<>> THEN Some(JoinNodes(doc, p_nodes))
            ELSE bySelector
        texts == PageLines(doc)
        byText ==
            IF Falsy(byParagraph) /\ texts # <<>>
            THEN Some(WrapParagraphs(SubSeq(texts, 1,
                        IF Len(texts) < TextLineCap THEN Len(texts) ELSE TextLineCap)))
            ELSE byParagraph
    IN  IF ~Falsy(byText) THEN clean_html(byText.html) ELSE NoContent

\* line 208
Chapter(doc, book_id, i) ==
    [title |-> chapter_title(doc, i),
     content |-> chapter_content(doc),
     source |-> chapter_url(book_id, i)]

\* line 153
source_book_always_chapter(first_ch_body, book_id) == chapter_url(book_id, 1)

source_book_of(first_ch_body, book_id) ==
    IF ~Falsy(first_ch_body) THEN chapter_url(book_id, 1) ELSE detail_url(book_id)

\* lines 155-167: the fields the detail page gives
BookFields(doc, book_id) ==
    [title |-> book_title(doc, book_id),
     description |-> book_description(doc),
     category |-> book_category(doc)]

\* line 210
BookResult(book_id, fields, source_book, chapters) ==
    [id |-> book_id,
     title |-> fields.title,
     description |-> fields.description,
     category |-> fields.category,
     source_book |-> source_book,
     chapters |-> chapters]

(***************************************************************************)
(* The export helpers (lines 90-108).                                      *)
(***************************************************************************)
\* html_to_text
RECURSIVE JoinBlankLine(_)
JoinBlankLine(lines) ==
    IF lines = <<>> THEN <<>>
    ELSE IF Len(lines) = 1 THEN lines[1]
    ELSE lines[1] \o <<"\n", "\n">> \o JoinBlankLine(Tail(lines))

html_to_text(html) == JoinBlankLine(PageLines(html))

\* unicodedata.normalize('NFKD', c) of one character
NFKDChar(c) ==
    CASE c = "U+01B0" -> <<"u", "U+031B">>
      [] c = "U+01A1" -> <<"o", "U+031B">>
      [] c = "U+00F3" -> <<"o", "U+0301">>
      [] c = "U+00F4" -> <<"o", "U+0302">>
      [] c = "U+1EA3" -> <<"a", "U+0309">>
      [] c = "U+1ED9" -> <<"o", "U+0323", "U+0302">>
      [] c = "U+FF1A" -> <<":">>
      [] OTHER -> <<c>>

RECURSIVE NFKD(_)
NFKD(s) == IF s = <<>> THEN <<>> ELSE NFKDChar(Head(s)) \o NFKD(Tail(s))

\* line 102, then line 104
RECURSIVE ReplaceAndRemove(_)
ReplaceAndRemove(s) ==
    IF s = <<>> THEN <<>>
    ELSE (IF Head(s) \in {"/", "\\"} THEN <<" ">>
          ELSE IF Head(s) \in {"<", ">", ":", "\"", "|", "?", "*"} THEN <<>>
          ELSE <<Head(s)>>) \o ReplaceAndRemove(Tail(s))

\* line 99: the default of max_len
DefaultMaxLen == 200

sanitize_filename(name, max_len) ==
    LET cleaned == strip(ReplaceAndRemove(NFKD(name)))
        cut == IF Len(cleaned) > max_len
               THEN rstrip(SubSeq(cleaned, 1,
                        IF max_len >= 0 THEN max_len ELSE Len(cleaned) + max_len))
               ELSE cleaned
    IN  IF cut # <<>> THEN cut ELSE StrUntitled

(***************************************************************************)
(* What the endpoints write (lines 232-293).                               *)
(***************************************************************************)
File(dir, name, text, data) == [dir |-> dir, name |-> name, text |-> text, data |-> data]

StrOutput == <<"o", "u", "t", "p", "u", "t">>

\* f"qnote_{timestamp}.json": the clock's reading is one character of the name
StrQnoteJson == <<"q", "n", "o", "t", "e", "_", "<utc>", ".", "j", "s", "o", "n">>

StrDescriptionTxt ==
    <<"d", "e", "s", "c", "r", "i", "p", "t", "i", "o", "n", ".", "t", "x", "t">>

StrMetaJson == <<"m", "e", "t", "a", ".", "j", "s", "o", "n">>

StrTxt == <<".", "t", "x", "t">>

StrTitle == <<"T", "i", "t", "l", "e", ":", " ">>

StrCategory == <<"C", "a", "t", "e", "g", "o", "r", "y", ":", " ">>

StrSource == <<"S", "o", "u", "r", "c", "e", ":", " ">>

StrHost == <<"h", "t", "t", "p", "s", ":", "/", "/", "q", "n", "o", "t", "e", ".",
             "q", "q", ".", "c", "o", "m">>

RECURSIVE PathStr(_)
PathStr(segs) == IF segs = <<>> THEN <<>> ELSE <<"/">> \o Head(segs) \o PathStr(Tail(segs))

\* the URL as the f-strings of lines 145, 151 and 171 spell it
UrlStr(url) == StrHost \o PathStr(url.segs)

\* str(idx).zfill(3)
ZFill3(s) == IF Len(s) >= 3 THEN s ELSE IF Len(s) = 2 THEN <<"0">> \o s ELSE <<"0", "0">> \o s

\* lines 277-284
RECURSIVE ChapterFiles(_, _, _)
ChapterFiles(dir, chs, idx) ==
    IF chs = <<>> THEN <<>>
    ELSE << File(dir,
                 ZFill3(DecStr(idx)) \o <<" ", "-", " ">>
                     \o sanitize_filename(Head(chs).title, DefaultMaxLen) \o StrTxt,
                 Head(chs).title \o <<"\n", "\n">> \o html_to_text(Head(chs).content),
                 <<>>) >>
         \o ChapterFiles(dir, Tail(chs), idx + 1)

\* lines 263-289: the files of one book
BookFiles(book) ==
    LET dir == StrOutput \o <<"/">> \o book.id \o <<"_">>
                   \o sanitize_filename(book.title, DefaultMaxLen)
    IN  << File(dir, StrDescriptionTxt,
                StrTitle \o book.title \o <<"\n">>
                    \o StrCategory \o book.category \o <<"\n">>
                    \o StrSource \o UrlStr(book.source_book) \o <<"\n", "\n">>
                    \o html_to_text(book.description),
                <<>>) >>
        \o ChapterFiles(dir, book.chapters, 1)
        \o << File(dir, StrMetaJson, <<>>, <<book>>) >>

RECURSIVE ExportFiles(_)
ExportFiles(res) ==
    IF res = <<>> THEN <<>> ELSE BookFiles(Head(res)) \o ExportFiles(Tail(res))

Endpoints == {"api_crawl", "api_crawl_and_save", "api_crawl_and_export"}

\* what the endpoint writes once crawl_books has returned res
WrittenFiles(ep, raised, res) ==
    IF raised THEN <<>>
    ELSE IF ep = "api_crawl_and_save" THEN << File(StrOutput, StrQnoteJson, <<>>, res) >>
    ELSE IF ep = "api_crawl_and_export" THEN ExportFiles(res)
    ELSE <<>>

(***************************************************************************)
(* The inputs of a run: what the site may answer.                          *)
(***************************************************************************)
Ch(c) == <<c>>

\* the hrefs a homepage anchor may carry
LinkPool ==
    << Href("", <<SegDetail, Ch("1")>>, FALSE),
       Href(Host, <<SegDetail, Ch("1")>>, FALSE),
       Href(Host, <<SegDetail, <<"1", "x">>>>, FALSE),
       Href("", <<SegDetail, Ch("2")>>, FALSE),
       Href("", <<SegDetail, Ch("2")>>, TRUE),
       Href("", <<SegDetail, Ch("3")>>, FALSE),
       Href("", <<SegRead, Ch("1"), Ch("1")>>, FALSE),
       Href("", <<SegDetail, Ch("a")>>, FALSE),
       NoHref >>

RECURSIVE Anchors(_)
Anchors(picks) ==
    IF picks = <<>> THEN <<>>
    ELSE <<OpenA(LinkPool[Head(picks)]), Text(Ch("a")), Close("a")>> \o Anchors(Tail(picks))

\* the homepages: a heading and up to MaxLinks anchors
HomePages ==
    {El("h1", {}, <<Text(Ch("a"))>>) \o Anchors(picks) :
        picks \in UNION {{q \in [1..n -> 1..Len(LinkPool)] :
                            \A a, b \in 1..n : a <= b => q[a] <= q[b]} : n \in 0..MaxLinks}}

\* the detail page of a run
DetailPages ==
    { El("h1", {}, <<Text(<<" ", "a", " ">>)>>)
        \o El("div", {"breadcrumb"},
              El("a", {}, <<Text(Ch("a"))>>) \o El("a", {}, <<Text(<<"b", " ">>)>>))
        \o El("div", {"intro"},
              <<Text(Ch("a")), Img({})>> \o El("a", {}, <<Text(Ch("b"))>>)) }

\* the chapter page of a run

ChapterPages ==
    { El("h1", {}, <<Text(Ch("a"))>>)
        \o El("div", {"content"}, El("p", {}, <<Text(<<"a", " ", "b">>)>>)) }

ErrorPage == <<Text(Ch("a"))>>

\* what a GET of a page of the given kind may do
Responses(pages) ==
    {Response(HTTP_OK, p) : p \in pages \cup {<<>>}}
        \cup {Response(404, ErrorPage), Timeout, TransportError}

(***************************************************************************)
(* State.                                                                  *)
(***************************************************************************)
VARIABLES
    pc,           \* where the run is: Idle, an await, Done or Failed
    endpoint,     \* the endpoint that was called
    req,          \* the CrawlRequest
    inflight,     \* the URLs being fetched
    book_ids,     \* line 140
    pos,          \* the index in book_ids of the book of the loop of line 144
    detail_body,  \* line 146
    fields,       \* lines 157-167: title, description and category
    source_book,  \* line 153
    chapters,     \* line 169
    i,            \* the index of the loop of line 170
    results,      \* line 142
    error,        \* the HTTPException crawl_books raised, if any
    returned,     \* what crawl_books returned, once it has
    files,        \* the files written, in order
    fetchLog,     \* history: every fetch_text call that resolved
    discovered,   \* history: the ids of the homepage before the truncation
    repeats,      \* history: what the homepage's anchors repeated
    page,         \* SpecExtract: the page the extraction is applied to
    input,        \* the argument of a helper called on its own
    output        \* what the helper returned

vars == <<pc, endpoint, req, inflight, book_ids, pos, detail_body, fields, source_book,
          chapters, i, results, error, returned, files, fetchLog, discovered,
          repeats, page, input, output>>

NoError == [status |-> 0, detail |-> ""]

NoUrl == Url("", <<>>)

NoFields == [title |-> <<>>, description |-> <<>>, category |-> <<>>]

Init ==
    /\ pc = "Idle"
    /\ endpoint = ""
    /\ req = [num_books |-> 0, num_chapters |-> 0]
    /\ inflight = <<>>
    /\ book_ids = <<>>
    /\ pos = 0
    /\ detail_body = <<>>
    /\ fields = NoFields
    /\ source_book = NoUrl
    /\ chapters = <<>>
    /\ i = 0
    /\ results = <<>>
    /\ error = NoError
    /\ returned = <<>>
    /\ files = <<>>
    /\ fetchLog = <<>>
    /\ discovered = {}
    /\ repeats = {}
    /\ page = <<>>
    /\ input = <<>>
    /\ output = <<>>

\* history: the call site, the URL it asked for (of which book, which chapter)
\* and whether fetch_text gave a body with something in it
Logged(site, url, book, index, body) ==
    Append(fetchLog,
           [site |-> site, url |-> url, book |-> book, index |-> index,
            ok |-> ~body.isNone /\ body.html # <<>>])

\* history: the anchors with a '/detail/' href, in document order
DetailAnchors(doc) ==
    LET at == SortedSeq({j \in Elements(doc) :
                           /\ doc[j].tag = "a"
                           /\ doc[j].href.present
                           /\ HasDetailMarker(doc[j].href)})
    IN  [k \in 1..Len(at) |-> doc[at[k]].href]

\* history: "target" when two anchors with different hrefs (a path and a
\* URL) resolve to one link, "id" when two different links carry one id
Repeats(doc) ==
    LET hrefs == DetailAnchors(doc)
        withId == {k \in 1..Len(hrefs) : DetailMatches(hrefs[k]) # {}}
    IN  (IF \E a, b \in withId :
                hrefs[a] # hrefs[b] /\ ResolveLink(hrefs[a]) = ResolveLink(hrefs[b])
         THEN {"target"} ELSE {})
        \cup
        (IF \E a, b \in withId :
                /\ ResolveLink(hrefs[a]) # ResolveLink(hrefs[b])
                /\ DetailId(hrefs[a]) = DetailId(hrefs[b])
         THEN {"id"} ELSE {})

\* the locals of the loop body hold nothing between two iterations: each is
\* assigned again before it is read
ClearLocals ==
    /\ detail_body' = <<>>
    /\ fields' = NoFields
    /\ source_book' = NoUrl
    /\ chapters' = <<>>
    /\ i' = 0

(***************************************************************************)
(* The steps of crawl_books between two awaits.                            *)
(***************************************************************************)
\* line 116, and the endpoint's await of crawl_books raising with it
Raise ==
    /\ pc' = "Failed"
    /\ error' = [status |-> 502, detail |-> "Failed to fetch QNote homepage"]
    /\ inflight' = <<>>
    /\ files' = files \o WrittenFiles(endpoint, TRUE, <<>>)
    /\ ClearLocals
    /\ UNCHANGED <<returned, results, pos>>

\* line 212, and the rest of the endpoint
Return(res) ==
    /\ pc' = "Done"
    /\ returned' = <<res>>
    /\ files' = files \o WrittenFiles(endpoint, FALSE, res)
    /\ inflight' = <<>>
    /\ results' = res
    /\ ClearLocals
    /\ UNCHANGED <<error, pos>>

\* line 144: the loop takes the book at p, or ends
EnterBook(ids, p, res) ==
    IF p <= Len(ids)
    THEN /\ pc' = "AwaitDetail"
         /\ pos' = p
         /\ inflight' = <<detail_url(ids[p])>>
         /\ results' = res
         /\ ClearLocals
         /\ UNCHANGED <<error, returned, files>>
    ELSE Return(res)

\* line 210
prepend_result(res, book) == <<book>> \o res

append_result(res, book) == Append(res, book)

\* lines 210 and 144: the book is appended and the loop goes on
FinishBook(fs, sb, chs) ==
    EnterBook(book_ids, pos + 1,
              append_result(results, BookResult(book_ids[pos], fs, sb, chs)))

\* lines 147-148
raise_on_detail_failure == "raise"

on_detail_failure == "continue"

\* lines 173-174: the index the walk fetches after a failed fetch of chapter k
\* (0: none, the loop is left)
skip_failed_chapter(k, n) == IF k < n THEN k + 1 ELSE 0

after_failed_chapter(k, n) == 0

\* line 170: range(1, ...), the index the walk starts at, whatever the probe
\* of line 152 gave
walk_start_after_probe(first_ch_body) == IF Falsy(first_ch_body) THEN 1 ELSE 2

walk_start(first_ch_body) == 1

\* line 170: the index is one of range(1, num_chapters + 1)
in_range_one_more(index, num_chapters) == index <= num_chapters + 1

in_range(index, num_chapters) == index <= num_chapters

\* lines 115-116
homepage_unchecked(body) == FALSE

homepage_failed(body) == Falsy(body)

(***************************************************************************)
(* Actions.                                                                *)
(***************************************************************************)
\* an endpoint is called: crawl_books runs to its first await (line 114)
Start(ep, nb, nc) ==
    /\ pc = "Idle"
    /\ pc' = "AwaitHome"
    /\ endpoint' = ep
    /\ req' = [num_books |-> nb, num_chapters |-> nc]
    /\ inflight' = <<homepage>>
    /\ UNCHANGED <<book_ids, pos, detail_body, fields, source_book, chapters, i, results,
                   error, returned, files, fetchLog, discovered, repeats, page, input, output>>

\* lines 114-146: the homepage fetch resolves
HomepageResolved(r) ==
    /\ pc = "AwaitHome"
    /\ LET body == fetch_text(r)
           found == DiscoverIds(body.html)
       IN  /\ fetchLog' = Logged("homepage", homepage, <<>>, 0, body)
           /\ IF homepage_failed(body)
              THEN /\ Raise
                   /\ UNCHANGED <<book_ids, discovered, repeats>>
              ELSE /\ discovered' = SeqRange(found)
                   /\ repeats' = Repeats(body.html)
                   /\ \E ids \in Shuffles(found) :
                          /\ book_ids' = Truncate(ids, req.num_books)
                          /\ EnterBook(book_ids', 1, <<>>)
    /\ UNCHANGED <<endpoint, req, page, input, output>>

\* lines 146-152: the detail fetch resolves
DetailResolved(r) ==
    /\ pc = "AwaitDetail"
    /\ LET body == fetch_text(r)
       IN  /\ fetchLog' = Logged("detail", detail_url(book_ids[pos]), book_ids[pos], 0, body)
           /\ IF Falsy(body)
              THEN /\ IF on_detail_failure = "continue"
                      THEN EnterBook(book_ids, pos + 1, results)
                      ELSE Raise
              ELSE /\ pc' = "AwaitProbe"
                   /\ detail_body' = body.html
                   /\ inflight' = <<chapter_url(book_ids[pos], 1)>>
                   /\ UNCHANGED <<pos, results, error, returned, files,
                                  fields, source_book, chapters, i>>
    /\ UNCHANGED <<endpoint, req, book_ids, discovered, repeats, page, input, output>>

\* lines 152-172: the probe of chapter 1 resolves
ProbeResolved(r) ==
    /\ pc = "AwaitProbe"
    /\ LET body == fetch_text(r)
           sb == source_book_of(body, book_ids[pos])
           fs == BookFields(detail_body, book_ids[pos])
           first == walk_start(body)
       IN  /\ fetchLog' = Logged("probe", chapter_url(book_ids[pos], 1), book_ids[pos], 1, body)
           /\ IF in_range(first, req.num_chapters)
              THEN /\ pc' = "AwaitChapter"
                   /\ fields' = fs
                   /\ source_book' = sb
                   /\ chapters' = <<>>
                   /\ i' = first
                   /\ inflight' = <<chapter_url(book_ids[pos], first)>>
                   /\ UNCHANGED <<pos, results, error, returned, files, detail_body>>
              ELSE FinishBook(fs, sb, <<>>)
    /\ UNCHANGED <<endpoint, req, book_ids, discovered, repeats, page, input, output>>

\* lines 172-210: the fetch of chapter i resolves
ChapterResolved(r) ==
    /\ pc = "AwaitChapter"
    /\ LET body == fetch_text(r)
           grown == IF Falsy(body) THEN chapters
                    ELSE Append(chapters, Chapter(body.html, book_ids[pos], i))
           next == IF Falsy(body) THEN after_failed_chapter(i, req.num_chapters)
                   ELSE IF in_range(i + 1, req.num_chapters) THEN i + 1 ELSE 0
       IN  /\ fetchLog' = Logged("chapter", chapter_url(book_ids[pos], i), book_ids[pos], i, body)
           /\ IF next # 0
              THEN /\ pc' = "AwaitChapter"
                   /\ chapters' = grown
                   /\ i' = next
                   /\ inflight' = <<chapter_url(book_ids[pos], next)>>
                   /\ UNCHANGED <<pos, results, error, returned, files,
                                  detail_body, fields, source_book>>
              ELSE FinishBook(fields, source_book, grown)
    /\ UNCHANGED <<endpoint, req, book_ids, discovered, repeats, page, input, output>>

NumBooks == -1..MaxBooks

NumChapters == -1..MaxChapters

\* the site answers the fetch in flight
HomepageFetched == pc = "AwaitHome" /\ \E r \in Responses(HomePages) : HomepageResolved(r)

DetailFetched == pc = "AwaitDetail" /\ \E r \in Responses(DetailPages) : DetailResolved(r)

ProbeFetched == pc = "AwaitProbe" /\ \E r \in Responses(ChapterPages) : ProbeResolved(r)

ChapterFetched == pc = "AwaitChapter" /\ \E r \in Responses(ChapterPages) : ChapterResolved(r)

Next ==
    \/ \E ep \in Endpoints, nb \in NumBooks, nc \in NumChapters : Start(ep, nb, nc)
    \/ HomepageFetched
    \/ DetailFetched
    \/ ProbeFetched
    \/ ChapterFetched

Spec == Init /\ [][Next]_vars

\* line 71, timeout=20.0: a fetch that nothing else resolves times out
HomepageTimesOut == pc = "AwaitHome" /\ HomepageResolved(Timeout)

\* No fetch is awaited for ever.  The timeout of a fetch of the loop is
\* enabled exactly when pc is the await of that fetch, and a run stays at
\* that await for ever only if the fetch never resolves (book_ids and
\* num_chapters are finite), so the weak fairness of the timeout is the
\* recurrence of pc being elsewhere.  It is written as that recurrence
\* because TLC would else run the extraction and the export of lines 155-293
\* for every ENABLED it evaluates.
FairSpec ==
    /\ Spec
    /\ WF_vars(HomepageTimesOut)
    /\ []<>(pc # "AwaitDetail")
    /\ []<>(pc # "AwaitProbe")
    /\ []<>(pc # "AwaitChapter")

(***************************************************************************)
(* The extraction alone: lines 155-167 and 175-208 applied to a page.      *)
(***************************************************************************)
\* a page is made of at most MaxBlocks of the blocks of BlockPool
MaxBlocks == 2

\* a text of TextLineCap + 1 lines: 'a' on every line but the last, 'b' there
LongText ==
    [k \in 1..(2 * TextLineCap + 1) |->
        IF k % 2 = 0 THEN "\n" ELSE IF k = 2 * TextLineCap + 1 THEN "b" ELSE "a"]

BlockPool ==
    << El("h1", {}, <<Text(Ch("a"))>>),
       El("h1", {}, <<Text(Ch(" "))>>),
       El("h2", {}, <<Text(Ch("b"))>>),
       El("div", {"content"}, El("p", {}, <<Text(Ch("a"))>>)),
       El("div", {"intro"}, <<Text(Ch("a")), Img({})>> \o El("a", {}, <<Text(Ch("b"))>>)),
       <<Img({"content"})>>,
       El("a", {"intro"}, <<>>),
       El("div", {"breadcrumb"},
          El("a", {}, <<Text(Ch("a"))>>) \o El("a", {}, <<Text(Ch(" "))>>)),
       El("div", {"breadcrumb"}, El("a", {}, <<Text(Ch("a"))>>)),
       El("p", {}, <<Text(<<"a", " ", "b">>)>>),
       <<Text(<<"a", "\n", " ", "b">>)>>,
       El("div", {"chapter"}, <<Text(Ch("c"))>>),
       <<Open("div", {}, "content"), Text(Ch("d")), Close("div")>>,
       El("div", {"content"}, El("div", {"content"}, <<Text(Ch("a"))>>)),
       <<Text(LongText)>> >>

RECURSIVE Blocks(_)
Blocks(picks) ==
    IF picks = <<>> THEN <<>> ELSE BlockPool[Head(picks)] \o Blocks(Tail(picks))

ExtractPages ==
    {Serialize(Blocks(picks)) :
        picks \in UNION {[1..n -> 1..Len(BlockPool)] : n \in 0..MaxBlocks}}

\* the id and the chapter index the extraction runs with
ExtractId == Ch("7")

InitExtract ==
    /\ pc = "Page"
    /\ page \in ExtractPages
    /\ endpoint = ""
    /\ req = [num_books |-> 0, num_chapters |-> 0]
    /\ inflight = <<>>
    /\ book_ids = <<ExtractId>>
    /\ pos = 1
    /\ detail_body = <<>>
    /\ fields = NoFields
    /\ source_book = NoUrl
    /\ chapters = <<>>
    /\ i = 1
    /\ results = <<>>
    /\ error = NoError
    /\ returned = <<>>
    /\ files = <<>>
    /\ fetchLog = <<>>
    /\ discovered = {}
    /\ repeats = {}
    /\ input = <<>>
    /\ output = <<>>

\* lines 155-167 on the page, as a detail page
ExtractBook ==
    /\ pc = "Page"
    /\ pc' = "BookExtracted"
    /\ fields' = BookFields(page, book_ids[pos])
    /\ UNCHANGED <<endpoint, req, inflight, book_ids, pos, detail_body, source_book,
                   chapters, i, results, error, returned, files, fetchLog, discovered,
                   repeats, page, input, output>>

\* lines 175-208 on the page, as a chapter page
ExtractChapter ==
    /\ pc = "Page"
    /\ pc' = "ChapterExtracted"
    /\ chapters' = Append(chapters, Chapter(page, book_ids[pos], i))
    /\ UNCHANGED <<endpoint, req, inflight, book_ids, pos, detail_body, fields,
                   source_book, i, results, error, returned, files, fetchLog,
                   discovered, repeats, page, input, output>>

NextExtract == ExtractBook \/ ExtractChapter

SpecExtract == InitExtract /\ [][NextExtract]_vars

(***************************************************************************)
(* The export helpers alone: sanitize_filename (lines 99-108) called with  *)
(* a name and a max_len.                                                   *)
(***************************************************************************)
\* a name has at most MaxNameLen characters, and max_len is at most MaxNameLen
\* or the default
MaxNameLen == 3

\* a letter, a blank, a separator, a character Windows forbids, a full-width
\* colon (NFKD makes it ':') and a letter NFKD splits in three
NameChars == {"a", " ", "/", "?", "U+FF1A", "U+1ED9"}

Names == UNION {[1..n -> NameChars] : n \in 0..MaxNameLen}

MaxLens == 0..MaxNameLen \cup {DefaultMaxLen}

\* no run of crawl_books is going on
RunAtRest ==
    /\ endpoint = ""
    /\ req = [num_books |-> 0, num_chapters |-> 0]
    /\ inflight = <<>>
    /\ book_ids = <<>>
    /\ pos = 0
    /\ detail_body = <<>>
    /\ fields = NoFields
    /\ source_book = NoUrl
    /\ chapters = <<>>
    /\ i = 0
    /\ results = <<>>
    /\ error = NoError
    /\ returned = <<>>
    /\ files = <<>>
    /\ fetchLog = <<>>
    /\ discovered = {}
    /\ repeats = {}
    /\ page = <<>>

InitSanitize ==
    /\ pc = "Call"
    /\ RunAtRest
    /\ input \in [name : Names, max_len : MaxLens]
    /\ output = <<>>

\* sanitize_filename(name, max_len) returns; sanitize_filename(name) is the
\* call with max_len = DefaultMaxLen
CallSanitize ==
    /\ pc = "Call"
    /\ pc' = "Returned"
    /\ output' = sanitize_filename(input.name, input.max_len)
    /\ UNCHANGED <<endpoint, req, inflight, book_ids, pos, detail_body, fields,
                   source_book, chapters, i, results, error, returned, files,
                   fetchLog, discovered, repeats, page, input>>

NextSanitize == CallSanitize

SpecSanitize == InitSanitize /\ [][NextSanitize]_vars

(***************************************************************************)
(* html_to_text (lines 90-96) called on an HTML string, and then on the    *)
(* text it returned.                                                       *)
(***************************************************************************)
\* an HTML string is made of at most MaxPieces of the pieces of PiecePool
MaxPieces == 3

\* character data (a letter, a blank, a line break), the tags of an element,
\* and character data that reads as the tags ('&lt;b&gt;' and '&lt;/b&gt;')
PiecePool ==
    << <<Text(Ch("a"))>>,
       <<Text(Ch(" "))>>,
       <<Text(Ch("\n"))>>,
       <<Open("b", {}, "")>>,
       <<Close("b")>>,
       <<Text(<<"<", "b", ">">>)>>,
       <<Text(<<"<", "/", "b", ">">>)>> >>

RECURSIVE Pieces(_)
Pieces(picks) ==
    IF picks = <<>> THEN <<>> ELSE PiecePool[Head(picks)] \o Pieces(Tail(picks))

HtmlStrings ==
    {Serialize(Pieces(picks)) :
        picks \in UNION {[1..n -> 1..Len(PiecePool)] : n \in 0..MaxPieces}}

InitText ==
    /\ pc = "Call"
    /\ RunAtRest
    /\ input \in HtmlStrings
    /\ output = <<>>

\* html_to_text(html) returns
CallHtmlToText ==
    /\ pc = "Call"
    /\ pc' = "Returned"
    /\ output' = <<html_to_text(input)>>
    /\ UNCHANGED <<endpoint, req, inflight, book_ids, pos, detail_body, fields,
                   source_book, chapters, i, results, error, returned, files,
                   fetchLog, discovered, repeats, page, input>>

\* html_to_text is called on what it returned
CallHtmlToTextAgain ==
    /\ pc = "Returned"
    /\ pc' = "ReturnedAgain"
    /\ output' = Append(output, html_to_text(AsHtml(output[1])))
    /\ UNCHANGED <<endpoint, req, inflight, book_ids, pos, detail_body, fields,
                   source_book, chapters, i, results, error, returned, files,
                   fetchLog, discovered, repeats, page, input>>

NextText == CallHtmlToText \/ CallHtmlToTextAgain

SpecText == InitText /\ [][NextText]_vars

(***************************************************************************)
(* Properties.                                                             *)
(***************************************************************************)
LogAt(site) == {a \in 1..Len(fetchLog) : fetchLog[a].site = site}

\* the fetches of one call site for one book
LogOf(site, book) == {a \in LogAt(site) : fetchLog[a].book = book}

\* the places of the result that hold a record of the book
RecordsOf(book) == {j \in 1..Len(results) : results[j].id = book}

\* the place of the book in book_ids (ids are told apart by C3)
PlaceOf(book) == CHOOSE p \in 1..Len(book_ids) : book_ids[p] = book

HomepageOk == Len(fetchLog) >= 1 /\ fetchLog[1].ok

HomepageDown == Len(fetchLog) >= 1 /\ ~fetchLog[1].ok

\* C1: once the walker's fetch of chapter k of a book has failed, chapter k is
\* not fetched again, no chapter beyond k is fetched for the book, and the
\* book's record holds exactly the chapters 1..k-1, in order, each built from
\* a page of the site with the chapter's URL as its source.
StrictPrefixChapters ==
    \A a \in LogAt("chapter") :
        ~fetchLog[a].ok =>
            LET book == fetchLog[a].book
                k == fetchLog[a].index
            IN  /\ \A b \in LogOf("chapter", book) :
                       b # a => fetchLog[b].index < k /\ fetchLog[b].ok
                /\ \A m \in 1..(k - 1) :
                       \E b \in LogOf("chapter", book) : fetchLog[b].index = m
                /\ Cardinality(RecordsOf(book)) = 1
                /\ \A j \in RecordsOf(book) :
                       /\ Len(results[j].chapters) = k - 1
                       /\ \A m \in 1..(k - 1) :
                              /\ results[j].chapters[m].source = chapter_url(book, m)
                              /\ \E p \in ChapterPages :
                                     results[j].chapters[m] = Chapter(p, book, m)

\* C1's case: a walk that took chapter 1 and failed at chapter 2, run over
StrictPrefixWitness ==
    /\ pc = "Done"
    /\ \E a \in LogAt("chapter") :
           /\ ~fetchLog[a].ok
           /\ fetchLog[a].index = 2
           /\ \E j \in RecordsOf(fetchLog[a].book) : Len(results[j].chapters) = 1

\* C2: the result has at most num_books works and each work at most
\* num_chapters chapters, for every request crawl_books takes.
BoundedOutput ==
    pc = "Done" =>
        /\ Len(returned[1]) <= req.num_books
        /\ \A j \in 1..Len(returned[1]) :
               Len(returned[1][j].chapters) <= req.num_chapters

\* C3: the ids the run processes are pairwise distinct, and so are the ids of
\* the records of the result.
IdentifierUniqueness ==
    /\ \A a, b \in 1..Len(book_ids) : a # b => book_ids[a] # book_ids[b]
    /\ \A a, b \in 1..Len(results) : a # b => results[a].id # results[b].id

\* C3's case: the homepage named one target twice (as a path and as a URL)
\* and one id under two links, and the run returned two records
IdentifierUniquenessWitness ==
    /\ pc = "Done"
    /\ repeats = {"target", "id"}
    /\ Len(results) = 2

\* C4: when the homepage fetch fails the run is Failed with the 502 of line
\* 116 (a 5xx other than the 500 of a crash), no other fetch is issued, and
\* nothing is returned or written.
FatalDiscoveryFailure ==
    HomepageDown =>
        /\ pc = "Failed"
        /\ error.status \in 501..599
        /\ error.detail # ""
        /\ Len(fetchLog) = 1
        /\ inflight = <<>>
        /\ returned = <<>>
        /\ results = <<>>
        /\ files = <<>>

\* C4's case: the homepage fetch failed under an endpoint that writes
FatalDiscoveryWitness ==
    /\ HomepageDown
    /\ pc = "Failed"
    /\ endpoint \in {"api_crawl_and_save", "api_crawl_and_export"}

\* C5: once the homepage fetch has succeeded the run is never Failed and,
\* every fetch resolving, it reaches Done with a result.
OnlyDiscoveryAborts ==
    /\ [](HomepageOk => pc # "Failed" /\ error = NoError)
    /\ (HomepageOk ~> (pc = "Done" /\ returned # <<>>))

\* C5's case: a run that is Done although a detail fetch, a probe and a
\* chapter fetch failed
OnlyDiscoveryAbortsWitness ==
    /\ pc = "Done"
    /\ returned # <<>>
    /\ \E a \in LogAt("detail") : ~fetchLog[a].ok
    /\ \E a \in LogAt("probe") : ~fetchLog[a].ok
    /\ \E a \in LogAt("chapter") : ~fetchLog[a].ok

\* C6: after a failed detail fetch of a book there is no record of the book,
\* no probe and no chapter fetch for it, and the loop is at the next book:
\* its detail fetch is the next fetch, or the run is over when there is none.
SkippedWork ==
    \A a \in LogAt("detail") :
        ~fetchLog[a].ok =>
            LET book == fetchLog[a].book
                p == PlaceOf(book)
            IN  /\ RecordsOf(book) = {}
                /\ LogOf("probe", book) = {}
                /\ LogOf("chapter", book) = {}
                /\ LogOf("detail", book) = {a}
                /\ IF p < Len(book_ids)
                   THEN IF a < Len(fetchLog)
                        THEN /\ fetchLog[a + 1].site = "detail"
                             /\ fetchLog[a + 1].book = book_ids[p + 1]
                        ELSE /\ pc = "AwaitDetail"
                             /\ pos = p + 1
                             /\ inflight = <<detail_url(book_ids[p + 1])>>
                   ELSE a = Len(fetchLog) /\ pc = "Done"

\* C6's case: the first book was skipped and the second gave a record
SkippedWorkWitness ==
    /\ pc = "Done"
    /\ Len(book_ids) = 2
    /\ \E a \in LogOf("detail", book_ids[1]) : ~fetchLog[a].ok
    /\ RecordsOf(book_ids[2]) # {}

\* the books of ids whose detail fetch gave a body, in the order of ids
RECURSIVE Resolved(_)
Resolved(ids) ==
    IF ids = <<>> THEN <<>>
    ELSE (IF \E a \in LogOf("detail", Head(ids)) : fetchLog[a].ok
          THEN <<Head(ids)>> ELSE <<>>) \o Resolved(Tail(ids))

IdsOf(res) == [j \in 1..Len(res) |-> res[j].id]

\* C7: at Done the result holds one record for each processed id whose detail
\* fetch succeeded and no other, in the order the ids were processed, however
\* many chapters were fetched; and the result only ever grows by an append.
WalkingNeverAborts ==
    /\ [](pc = "Done" => IdsOf(results) = Resolved(book_ids) /\ returned = <<results>>)
    /\ [][\/ results' = results
          \/ \E book \in SeqRange(book_ids) :
                 /\ Len(results') = Len(results) + 1
                 /\ SubSeq(results', 1, Len(results)) = results
                 /\ results'[Len(results')].id = book]_vars

\* C7's case: two records, the first of a walk whose first chapter failed
WalkingNeverAbortsWitness ==
    /\ pc = "Done"
    /\ Len(results) = 2
    /\ req.num_chapters >= 1
    /\ results[1].chapters = <<>>
    /\ results[2].chapters # <<>>

\* the number of chapter fetches of the book that gave a body
ChaptersFetched(book) == Cardinality({a \in LogOf("chapter", book) : fetchLog[a].ok})

\* C8: a record's source_book is the chapter-1 URL when the probe gave a body
\* and the detail URL when it did not; whatever the probe gave, the walk
\* starts at chapter 1 when num_chapters allows a walk at all, and the
\* record's chapters are those the walk's own fetches gave.
CanonicalSource ==
    /\ \A j \in 1..Len(results) :
           LET book == results[j].id
           IN  /\ Cardinality(LogOf("probe", book)) = 1
               /\ \A a \in LogOf("probe", book) :
                      results[j].source_book =
                          IF fetchLog[a].ok THEN chapter_url(book, 1) ELSE detail_url(book)
               /\ Len(results[j].chapters) = ChaptersFetched(book)
    /\ \A a \in LogAt("probe") :
           req.num_chapters >= 1 =>
               IF a < Len(fetchLog)
               THEN /\ fetchLog[a + 1].site = "chapter"
                    /\ fetchLog[a + 1].book = fetchLog[a].book
                    /\ fetchLog[a + 1].index = 1
                    /\ fetchLog[a + 1].url = fetchLog[a].url
               ELSE /\ pc = "AwaitChapter"
                    /\ inflight = <<fetchLog[a].url>>

\* C8's case: the probe failed, the walk fetched chapter 1 all the same and
\* got it
CanonicalSourceWitness ==
    /\ pc = "Done"
    /\ \E j \in 1..Len(results) :
           /\ results[j].source_book = detail_url(results[j].id)
           /\ Len(results[j].chapters) >= 1
    /\ \E j \in 1..Len(results) :
           /\ results[j].source_book = chapter_url(results[j].id, 1)
           /\ results[j].chapters = <<>>

\* C9: every extracted field of a record is a non-empty string.
ExtractionTotality ==
    /\ pc = "BookExtracted" =>
           /\ fields.title # <<>>
           /\ fields.description # <<>>
           /\ fields.category # <<>>
    /\ pc = "ChapterExtracted" =>
           \A m \in 1..Len(chapters) :
               chapters[m].title # <<>> /\ chapters[m].content # <<>>

Min(a, b) == IF a <= b THEN a ELSE b

\* C10: with n ids on the homepage and num_books = m >= 0 the run processes
\* exactly min(n, m) of the n ids, each fetched once and in the order of
\* book_ids, and returns min(n, m) works when every detail fetch succeeds.
SampleSize ==
    (HomepageOk /\ req.num_books >= 0) =>
        /\ Len(book_ids) = Min(Cardinality(discovered), req.num_books)
        /\ SeqRange(book_ids) \subseteq discovered
        /\ \A book \in SeqRange(book_ids) : Cardinality(LogOf("detail", book)) <= 1
        /\ \A a \in LogAt("detail") : fetchLog[a].book \in SeqRange(book_ids)
        /\ pc = "Done" =>
               /\ \A book \in SeqRange(book_ids) : Cardinality(LogOf("detail", book)) = 1
               /\ (\A a \in LogAt("detail") : fetchLog[a].ok) =>
                      Len(returned[1]) = Min(Cardinality(discovered), req.num_books)

\* C10's case: three ids, num_books = 2, both detail fetches succeeded
SampleSizeWitness ==
    /\ pc = "Done"
    /\ Cardinality(discovered) = 3
    /\ req.num_books = 2
    /\ \A a \in LogAt("detail") : fetchLog[a].ok
    /\ Len(returned[1]) = 2

ForbiddenInNames == {"/", "\\", "<", ">", ":", "\"", "|", "?", "*"}

\* C11: what sanitize_filename(name, max_len) returns holds none of
\* / \ < > : " | ? *, is not empty and is at most max_len long.
FilenameSafety ==
    pc = "Returned" =>
        /\ \A k \in 1..Len(output) : output[k] \notin ForbiddenInNames
        /\ output # <<>>
        /\ Len(output) <= input.max_len

\* C12: html_to_text applied to what html_to_text returned gives the same
\* text again.
IdempotentNormalization ==
    pc = "ReturnedAgain" => output[2] = output[1]

\* the URL of a fetch of a call site
UrlOf(site, book, index) ==
    IF site = "homepage" THEN homepage
    ELSE IF site = "detail" THEN detail_url(book)
    ELSE chapter_url(book, index)

\* the fetch f may come right after the fetch e
Follows(e, f) ==
    \/ e.site = "homepage" /\ f.site = "detail"
    \/ e.site = "detail" /\ e.ok /\ f.site = "probe" /\ f.book = e.book /\ f.index = 1
    \/ e.site = "detail" /\ ~e.ok /\ f.site = "detail" /\ f.book # e.book
    \/ e.site = "probe" /\ f.site = "chapter" /\ f.book = e.book /\ f.index = 1
    \/ e.site = "probe" /\ f.site = "detail" /\ f.book # e.book
    \/ e.site = "chapter" /\ f.site = "chapter" /\ f.book = e.book /\ f.index = e.index + 1
    \/ e.site = "chapter" /\ f.site = "detail" /\ f.book # e.book

\* the fetches a run may have in flight after its first
LoopFetches ==
    [site : {"detail", "probe", "chapter"}, book : SeqRange(book_ids),
     index : 0..(MaxChapters + 1)]

\* C13: at most one fetch is in flight; the first fetch is the homepage, and
\* then, book after book in the order of book_ids: the detail page, the probe
\* of chapter 1, chapter 1, chapter 2, ...
SequentialFetches ==
    /\ Len(inflight) <= 1
    /\ inflight # <<>> <=> pc \in {"AwaitHome", "AwaitDetail", "AwaitProbe", "AwaitChapter"}
    /\ \A a \in 1..Len(fetchLog) :
           /\ fetchLog[a].url = UrlOf(fetchLog[a].site, fetchLog[a].book, fetchLog[a].index)
           /\ fetchLog[a].site = "homepage" <=> a = 1
           /\ a < Len(fetchLog) => Follows(fetchLog[a], fetchLog[a + 1])
    /\ LET details == SortedSeq(LogAt("detail"))
       IN  /\ Len(details) <= Len(book_ids)
           /\ \A k \in 1..Len(details) : fetchLog[details[k]].book = book_ids[k]
    /\ inflight # <<>> =>
           IF fetchLog = <<>> THEN inflight[1] = homepage
           ELSE \E f \in LoopFetches :
                    /\ Follows(fetchLog[Len(fetchLog)], f)
                    /\ inflight[1] = UrlOf(f.site, f.book, f.index)
                    /\ f.site = "detail" =>
                           f.book = book_ids[Cardinality(LogAt("detail")) + 1]

SequentialFetchesWitness ==
    /\ pc = "Done"
    /\ Cardinality(LogAt("detail")) = 2
    /\ \E a \in LogAt("chapter") :
           fetchLog[a].index = 2 /\ fetchLog[a].book = book_ids[1]
    /\ \E a \in LogAt("probe") : fetchLog[a].book = book_ids[2]

\* the selectors of the list that match a node of the page
Matching(doc) == {k \in 1..Len(selectors) : select(doc, selectors[k]) # <<>>}

\* the chapter body the page gave
BodyOf == chapters[Len(chapters)].content

TextTierCapReached ==
    /\ pc = "ChapterExtracted"
    /\ Matching(page) = {}
    /\ select_paragraphs(page) = <<>>
    /\ Len(PageLines(page)) > TextLineCap
    /\ Len(find_all(BodyOf, {"p"})) = TextLineCap

\* the nodes of the tier the chapter body is made of
WinningNodes(doc) ==
    IF Matching(doc) # {}
    THEN select(doc, selectors[CHOOSE k \in Matching(doc) : \A m \in Matching(doc) : k <= m])
    ELSE select_paragraphs(doc)

\* how many text blocks of the extracted HTML are the text t
Occurrences(html, t) ==
    Cardinality({j \in 1..Len(html) : html[j].k = "text" /\ strip(html[j].s) = t})

\* the text of every node of the sequence is at most once in the HTML
EachTextOnce(doc, nodes, html) ==
    \A n \in 1..Len(nodes) :
        LET t == strip(get_text(doc, nodes[n]))
        IN  t # <<>> => Occurrences(html, t) <= 1

\* C15: the text of a node the winning tier matched is only once in the
\* extracted field, however many of the matched nodes hold it.
DuplicateSuppression ==
    /\ pc = "ChapterExtracted" => EachTextOnce(page, WinningNodes(page), BodyOf)
    /\ pc = "BookExtracted" =>
           EachTextOnce(page, select_class(page, {"intro", "detail_intro"}),
                        fields.description)

\* the stripped text of the first element of the page with the tag, given
\* that there is one
FirstHeading(doc, tag) == strip(get_text(doc, find_all(doc, {tag})[1]))

\* C16: a work's title is the text of the first h1 of the detail page, of
\* its first h2 when it has no h1, and 'Book <id>' when it has neither; a
\* chapter's title is the text of the first h1 of the chapter page, and the
\* title made of the chapter index when it has none.
TitleRule ==
    /\ pc = "BookExtracted" =>
           fields.title =
               IF find_all(page, {"h1"}) # <<>> THEN FirstHeading(page, "h1")
               ELSE IF find_all(page, {"h2"}) # <<>> THEN FirstHeading(page, "h2")
               ELSE StrBook \o book_ids[pos]
    /\ pc = "ChapterExtracted" =>
           chapters[Len(chapters)].title =
               IF find_all(page, {"h1"}) # <<>> THEN FirstHeading(page, "h1")
               ELSE StrChuong \o DecStr(i)

\* the step is the fetch in flight resolving with r
ResolvedBy(r) ==
    \/ pc = "AwaitHome" /\ HomepageResolved(r)
    \/ pc = "AwaitDetail" /\ DetailResolved(r)
    \/ pc = "AwaitProbe" /\ ProbeResolved(r)
    \/ pc = "AwaitChapter" /\ ChapterResolved(r)

\* a timeout, another transport exception, a status that is not 200
FailureKinds == {Timeout, TransportError, Response(404, ErrorPage)}

\* C17: a timeout, another exception and a non-200 status all make
\* fetch_text give no body, and at every fetch of a run the step one of them
\* makes is the step each of the others makes: the run goes on from the same
\* state whichever occurred.
FailureKindsIndistinguishable ==
    [][LET timeout == ResolvedBy(Timeout)
       IN  /\ \A r \in FailureKinds : fetch_text(r) = None
           /\ ResolvedBy(TransportError) <=> timeout
           /\ ResolvedBy(Response(404, ErrorPage)) <=> timeout]_vars

\* a finished run in which a detail fetch, a probe and a chapter fetch failed
FailureKindsWitness ==
    /\ pc = "Done"
    /\ \E a \in LogAt("detail") : ~fetchLog[a].ok
    /\ \E a \in LogAt("probe") : ~fetchLog[a].ok
    /\ \E a \in LogAt("chapter") : ~fetchLog[a].ok

\* a 200 response with an empty body
EmptyBody == Response(HTTP_OK, <<>>)

\* C18: a 200 response with an empty body is handled as a failed fetch: the
\* step it makes is the step a timeout makes; on the homepage the run fails
\* with the discovery error, on a detail page no record is made and no probe
\* is sent, on chapter i the walk ends and the record keeps chapters 1..i-1.
EmptyBodyIsFailure ==
    [][/\ ResolvedBy(EmptyBody) <=> ResolvedBy(Timeout)
       /\ ResolvedBy(EmptyBody) =>
              /\ pc = "AwaitHome" => pc' = "Failed" /\ error'.status = 502
              /\ pc = "AwaitDetail" =>
                     /\ results' = results
                     /\ pc' \in {"AwaitDetail", "Done"}
                     /\ pc' = "AwaitDetail" => pos' = pos + 1
              /\ pc = "AwaitChapter" =>
                     /\ pc' \in {"AwaitDetail", "Done"}
                     /\ Len(results') = Len(results) + 1
                     /\ results'[Len(results')].id = book_ids[pos]
                     /\ results'[Len(results')].chapters = chapters
                     /\ Len(chapters) = i - 1]_vars

\* a finished run with a book skipped and, for another book, a walk stopped
\* at chapter 2 with chapter 1 kept
EmptyBodyWitness ==
    /\ pc = "Done"
    /\ \E a \in LogAt("detail") : ~fetchLog[a].ok /\ RecordsOf(fetchLog[a].book) = {}
    /\ \E a \in LogAt("chapter") :
           /\ ~fetchLog[a].ok
           /\ fetchLog[a].index = 2
           /\ \E j \in RecordsOf(fetchLog[a].book) : Len(results[j].chapters) = 1

\* how many fetches of the URL the run has issued
FetchesOf(url) ==
    Cardinality({a \in 1..Len(fetchLog) : fetchLog[a].url = url})
        + (IF inflight = <<url>> THEN 1 ELSE 0)

Max(a, b) == IF a >= b THEN a ELSE b

\* C19: with k sampled ids and num_chapters = c the run issues at most
\* 1 + k * (2 + max(c, 0)) fetches; for every id the detail URL is fetched at
\* most once, the URL of chapter 1 at most twice and the URL of any later
\* chapter at most once.
BoundedFetchCount ==
    /\ Len(fetchLog) + Len(inflight)
           <= 1 + Len(book_ids) * (2 + Max(req.num_chapters, 0))
    /\ FetchesOf(homepage) <= 1
    /\ \A b \in SeqRange(book_ids) :
           /\ FetchesOf(detail_url(b)) <= 1
           /\ FetchesOf(chapter_url(b, 1)) <= 2
           /\ \A n \in 2..(MaxChapters + 2) : FetchesOf(chapter_url(b, n)) <= 1
    /\ \A a \in 1..Len(fetchLog) :
           fetchLog[a].site = "chapter" => fetchLog[a].index <= req.num_chapters

\* a finished run that issued every fetch the bound allows
BoundedFetchCountWitness ==
    /\ pc = "Done"
    /\ Len(book_ids) = 2
    /\ req.num_chapters = 2
    /\ Len(fetchLog) = 1 + Len(book_ids) * (2 + req.num_chapters)
    /\ \A b \in SeqRange(book_ids) : FetchesOf(chapter_url(b, 1)) = 2

=============================================================================
